---- MODULE Spec2Model ----
(***************************************************************************)
(* A model of src/Nika.py: the weather cleaning pipeline                   *)
(* (clean_weather_data, with its nested custom_date_parser and             *)
(* convert_to_string_and_capitalize) and the top-5 report of               *)
(* save_data_and_generate_report.                                          *)
(*                                                                         *)
(* A DataFrame is a sequence of rows; a row is a function from column name *)
(* to cell.  Strings are sequences of one-character strings.  A numeric    *)
(* cell is [null, v] (v an integer, 0 when null); temperature_fahrenheit   *)
(* is kept exactly, in fifths of a degree.                                 *)
(***************************************************************************)
EXTENDS Integers, Sequences, FiniteSets, TLC

VARIABLES
    pc,          \* position in the run: the next statement, "returned", "raised", ...
    input,       \* the DataFrame as passed to clean_weather_data (never changed)
    df,          \* the local df of clean_weather_data / save_data_and_generate_report
    error,       \* the exception that left clean_weather_data ("" when none)
    date,        \* argument of a stand-alone custom_date_parser call
    parsed,      \* its return value
    data,        \* argument of a stand-alone convert_to_string_and_capitalize call
    capitalized, \* its return value
    avg_temp,    \* avg_temp of save_data_and_generate_report: <<[city, sum, count]>>
    report       \* the lines written after the header: <<[city, text]>>

vars == <<pc, input, df, error, date, parsed, data, capitalized, avg_temp, report>>

(***************************************************************************)
(* Characters                                                              *)
(***************************************************************************)
Digits == {"0", "1", "2", "3", "4", "5", "6", "7", "8", "9"}

DigitVal(c) ==
    CASE c = "0" -> 0 [] c = "1" -> 1 [] c = "2" -> 2 [] c = "3" -> 3
      [] c = "4" -> 4 [] c = "5" -> 5 [] c = "6" -> 6 [] c = "7" -> 7
      [] c = "8" -> 8 [] c = "9" -> 9

LowerLetters == <<"a", "b", "i", "k", "n", "o", "r", "u", "w">>
UpperLetters == <<"A", "B", "I", "K", "N", "O", "R", "U", "W">>

Range(f) == {f[i] : i \in DOMAIN f}

IsLower(c) == c \in Range(LowerLetters)
IsUpper(c) == c \in Range(UpperLetters)
\* str.isupper()/islower() of one character: the character has a case
IsCased(c) == IsLower(c) \/ IsUpper(c)

IndexOf(c, letters) == CHOOSE i \in DOMAIN letters : letters[i] = c

ToUpper(c) == IF IsLower(c) THEN UpperLetters[IndexOf(c, LowerLetters)] ELSE c
ToLower(c) == IF IsUpper(c) THEN LowerLetters[IndexOf(c, UpperLetters)] ELSE c

\* str.isspace() of one character
Whitespace == {" ", "\t"}

(***************************************************************************)
(* custom_date_parser (lines 58-65)                                        *)
(***************************************************************************)
\* the tuple of formats of line 60, in its order
DateFormats ==
    << [dirs |-> <<"d", "m", "Y">>, sep |-> "-"],
       [dirs |-> <<"d", "m", "Y">>, sep |-> "."],
       [dirs |-> <<"m", "d", "Y">>, sep |-> "/"],
       [dirs |-> <<"Y", "m", "d">>, sep |-> "-"],
       [dirs |-> <<"d", "m", "Y">>, sep |-> "/"],
       [dirs |-> <<"m", "d", "Y">>, sep |-> "-"],
       [dirs |-> <<"m", "d", "Y">>, sep |-> "."],
       [dirs |-> <<"Y", "m", "d">>, sep |-> "."],
       [dirs |-> <<"Y", "m", "d">>, sep |-> "/"] >>

\* the positions of the characters of s that are not digits
SeparatorPositions(s) == {i \in 1..Len(s) : s[i] \notin Digits}

\* the runs of digits of s, split at every character that is not a digit
Fields(s) ==
    LET at == SeparatorPositions(s)
        \* the position of the k-th separator; 0 and Len(s) + 1 bound the string
        cut(k) == IF k = 0 THEN 0
                  ELSE IF k > Cardinality(at) THEN Len(s) + 1
                  ELSE CHOOSE p \in at : Cardinality({q \in at : q < p}) = k - 1
    IN  [k \in 1..(Cardinality(at) + 1) |-> SubSeq(s, cut(k - 1) + 1, cut(k) - 1)]

\* the characters of s that are not digits, in order
Separators(s) == SelectSeq(s, LAMBDA c : c \notin Digits)

RECURSIVE Number(_)
Number(t) == IF t = <<>> THEN 0
             ELSE Number(SubSeq(t, 1, Len(t) - 1)) * 10 + DigitVal(t[Len(t)])

\* a run of digits matches the regular expression of a strptime directive
MatchesDirective(t, directive) ==
    CASE directive = "d" ->
            /\ Len(t) \in {1, 2}
            /\ Number(t) >= 1
            /\ Number(t) <= 31
      [] directive = "m" ->
            /\ Len(t) \in {1, 2}
            /\ Number(t) >= 1
            /\ Number(t) <= 12
      [] directive = "Y" -> Len(t) = 4

IsLeap(y) == (y % 4 = 0 /\ y % 100 # 0) \/ y % 400 = 0

DaysInMonth(y, m) ==
    IF m = 2 THEN (IF IsLeap(y) THEN 29 ELSE 28)
    ELSE IF m \in {4, 6, 9, 11} THEN 30 ELSE 31

FieldOf(s, fmt, directive) ==
    Number(Fields(s)[CHOOSE i \in 1..3 : fmt.dirs[i] = directive])

\* pd.to_datetime(date, format=fmt) returns (TRUE) or raises ValueError (FALSE)
to_datetime_ok(s, fmt) ==
    /\ Separators(s) = <<fmt.sep, fmt.sep>>
    /\ Len(Fields(s)) = 3
    /\ \A i \in 1..3 : MatchesDirective(Fields(s)[i], fmt.dirs[i])
    /\ FieldOf(s, fmt, "Y") >= 1
    /\ FieldOf(s, fmt, "d") <= DaysInMonth(FieldOf(s, fmt, "Y"), FieldOf(s, fmt, "m"))

NaT == [kind |-> "NaT"]

to_datetime(s, fmt) ==
    [kind |-> "Timestamp", year |-> FieldOf(s, fmt, "Y"),
     month |-> FieldOf(s, fmt, "m"), day |-> FieldOf(s, fmt, "d")]

RECURSIVE try_formats(_, _, _)
\* the for loop of lines 60-65 from the i-th format on
try_formats(s, fmts, i) ==
    IF i > Len(fmts) THEN NaT
    ELSE IF to_datetime_ok(s, fmts[i]) THEN to_datetime(s, fmts[i])
    ELSE try_formats(s, fmts, i + 1)

\* the loop with "%d/%m/%Y" tried before "%m/%d/%Y"
custom_date_parser_dayfirst(s) ==
    try_formats(s, [DateFormats EXCEPT ![3] = DateFormats[5], ![5] = DateFormats[3]], 1)

custom_date_parser(s) == try_formats(s, DateFormats, 1)

(***************************************************************************)
(* convert_to_string_and_capitalize (lines 74-75)                          *)
(***************************************************************************)
RECURSIVE lstrip(_)
lstrip(s) == IF s # <<>> /\ Head(s) \in Whitespace THEN lstrip(Tail(s)) ELSE s

RECURSIVE rstrip(_)
rstrip(s) == IF s # <<>> /\ s[Len(s)] \in Whitespace
             THEN rstrip(SubSeq(s, 1, Len(s) - 1)) ELSE s

strip(s) == rstrip(lstrip(s))

RECURSIVE title_from(_, _)
\* str.title(): a cased character is uppercased when the character before it
\* is not cased (or there is none), lowercased when it is
title_from(s, previous_is_cased) ==
    IF s = <<>> THEN <<>>
    ELSE << IF previous_is_cased THEN ToLower(Head(s)) ELSE ToUpper(Head(s)) >>
         \o title_from(Tail(s), IsCased(Head(s)))

RECURSIVE title_whitespace_from(_, _)
\* a title() whose words are separated by whitespace only: the first letter of
\* a word is uppercased, every later letter of the word lowercased
title_whitespace_from(s, letter_seen) ==
    IF s = <<>> THEN <<>>
    ELSE << IF letter_seen THEN ToLower(Head(s)) ELSE ToUpper(Head(s)) >>
         \o title_whitespace_from(Tail(s),
                Head(s) \notin Whitespace /\ (letter_seen \/ IsCased(Head(s))))

title(s) == title_from(s, FALSE)

\* the function without the strip() call
convert_without_strip(s) == title(s)

convert_to_string_and_capitalize(s) == title(strip(s))

(***************************************************************************)
(* Cells, rows and DataFrames                                              *)
(***************************************************************************)
\* NaN / None in a cell
Null == [null |-> TRUE]
Val(x) == [null |-> FALSE, v |-> x]

\* pd.isna of a cell
isna(cell) == cell = Null

\* the columns read from the CSV file; "index" is the DataFrame's row label
Columns == {"index", "city", "date", "weather_condition", "temperature_celsius",
            "humidity_percent", "wind_speed_kph"}

NumericColumns == {"temperature_celsius", "humidity_percent", "wind_speed_kph"}

\* df[col] = series: the column of every row replaced (or added), by position
assign(t, col, series) ==
    [i \in DOMAIN t |->
        [c \in (DOMAIN t[i]) \cup {col} |-> IF c = col THEN series[i] ELSE t[i][c]]]

(***************************************************************************)
(* Step 1, lines 50-52:                                                    *)
(*   df[col] = df.groupby('city')[col].transform(                          *)
(*                 lambda x: x.fillna(round(x.mean())))                    *)
(***************************************************************************)
\* the group keys of df.groupby('city'): rows with a null city are in no group
groups(t) == {t[i]["city"].v : i \in {j \in DOMAIN t : ~isna(t[j]["city"])}}

\* the positions of the rows of group c
group_rows(t, c) == {i \in DOMAIN t : t[i]["city"] = Val(c)}

\* the positions of the non-null values of x = group c of column col
notna_rows(t, col, c) == {i \in group_rows(t, c) : ~isna(t[i][col])}

RECURSIVE sum_of(_, _, _)
sum_of(t, col, rows) ==
    IF rows = {} THEN 0
    ELSE LET i == CHOOSE j \in rows : TRUE
         IN  t[i][col].v + sum_of(t, col, rows \ {i})

\* Python's round() of the fraction num/den (den > 0): to the nearest integer,
\* a tie to the even one
round(num, den) ==
    LET q == num \div den
        r == num % den
    IN  IF 2 * r < den THEN q
        ELSE IF 2 * r > den THEN q + 1
        ELSE IF q % 2 = 0 THEN q ELSE q + 1

\* x.mean() is NaN for a group x without a non-null value, and round(NaN)
\* raises ValueError("cannot convert float NaN to integer")
transform_raises(t, col) == \E c \in groups(t) : notna_rows(t, col, c) = {}

\* round(x.mean()) with the mean taken over the whole column, not the group
rounded_mean_of_column(t, col, c) ==
    LET rows == {i \in DOMAIN t : ~isna(t[i][col])}
    IN  round(sum_of(t, col, rows), Cardinality(rows))

\* round(x.mean()) of group c, whose column has a non-null value
rounded_mean(t, col, c) ==
    round(sum_of(t, col, notna_rows(t, col, c)), Cardinality(notna_rows(t, col, c)))

\* a transform whose lambda returns x unchanged
transform_without_fillna(t, col) ==
    [i \in DOMAIN t |-> IF isna(t[i]["city"]) THEN Null ELSE t[i][col]]

\* the Series transform returns: x.fillna(...) for the rows of each group, NaN
\* for the rows that are in no group
transform(t, col) ==
    [i \in DOMAIN t |->
        IF isna(t[i]["city"]) THEN Null
        ELSE IF isna(t[i][col]) THEN Val(rounded_mean(t, col, t[i]["city"].v))
        ELSE t[i][col]]

(***************************************************************************)
(* Steps 2-6, lines 55-81                                                  *)
(***************************************************************************)
\* a dropna that also drops the rows with a null numeric value
dropna_any(t) ==
    SelectSeq(t, LAMBDA row : \A c \in DOMAIN row : ~isna(row[c]))

\* df.dropna(subset=['date', 'weather_condition'])
dropna(t) ==
    SelectSeq(t, LAMBDA row : ~isna(row["date"]) /\ ~isna(row["weather_condition"]))

\* df['date'].apply(custom_date_parser)
parse_dates(t) == [i \in DOMAIN t |-> custom_date_parser(t[i]["date"].v)]

\* a conversion without the offset
fahrenheit_no_offset(celsius) ==
    IF isna(celsius) THEN Null ELSE Val(celsius.v * 9)

\* a value of temperature_fahrenheit is kept in fifths of a degree:
\* celsius * 9 / 5 + 32 = (celsius * 9 + 32 * 5) / 5
fahrenheit(celsius) ==
    IF isna(celsius) THEN Null ELSE Val(celsius.v * 9 + 32 * 5)

\* df['weather_condition'].apply(convert_to_string_and_capitalize)
normalize(t) ==
    [i \in DOMAIN t |-> Val(convert_to_string_and_capitalize(t[i]["weather_condition"].v))]

Unknown == <<"U", "n", "k", "n", "o", "w", "n">>

\* a filter that compares with the lowercase word
drop_unknown_lowercase(t) ==
    SelectSeq(t, LAMBDA row :
        row["weather_condition"] # Val(<<"u", "n", "k", "n", "o", "w", "n">>))

\* df[df['weather_condition'] != 'Unknown']
drop_unknown(t) == SelectSeq(t, LAMBDA row : row["weather_condition"] # Val(Unknown))

(***************************************************************************)
(* clean_weather_data, one action per statement                            *)
(***************************************************************************)
Impute(col, here, next) ==
    /\ pc = here
    /\ IF transform_raises(df, col)
       THEN /\ pc' = "raised"
            /\ error' = "ValueError"
            /\ df' = df
       ELSE /\ pc' = next
            /\ df' = assign(df, col, transform(df, col))
            /\ error' = error
    /\ UNCHANGED <<input, date, parsed, data, capitalized, avg_temp, report>>

ImputeTemperature == Impute("temperature_celsius", "line 50", "line 51")
ImputeHumidity == Impute("humidity_percent", "line 51", "line 52")
ImputeWindSpeed == Impute("wind_speed_kph", "line 52", "line 55")

Statement(here, next, table) ==
    /\ pc = here
    /\ pc' = next
    /\ df' = table
    /\ UNCHANGED <<input, error, date, parsed, data, capitalized, avg_temp, report>>

DropMissing == Statement("line 55", "line 68", dropna(df))
ParseDates == Statement("line 68", "line 71", assign(df, "date", parse_dates(df)))
DeriveFahrenheit ==
    Statement("line 71", "line 78",
              assign(df, "temperature_fahrenheit",
                     [i \in DOMAIN df |-> fahrenheit(df[i]["temperature_celsius"])]))
NormalizeCondition ==
    Statement("line 78", "line 81", assign(df, "weather_condition", normalize(df)))
FilterUnknown == Statement("line 81", "returned", drop_unknown(df))

Next ==
    \/ ImputeTemperature
    \/ ImputeHumidity
    \/ ImputeWindSpeed
    \/ DropMissing
    \/ ParseDates
    \/ DeriveFahrenheit
    \/ NormalizeCondition
    \/ FilterUnknown

(***************************************************************************)
(* save_data_and_generate_report, lines 124-130                            *)
(***************************************************************************)
\* head(5) of line 124
TopN == 5

\* df.groupby('city')['temperature_celsius'].mean() of one city: the mean is
\* sum / count, NaN when count = 0
group_mean(t, c) ==
    [city |-> c,
     sum |-> sum_of(t, "temperature_celsius", notna_rows(t, "temperature_celsius", c)),
     count |-> Cardinality(notna_rows(t, "temperature_celsius", c))]

\* the order of sort_values(ascending=True): a <= b, NaN last
not_above(a, b) ==
    \/ b.count = 0
    \/ a.count > 0 /\ a.sum * b.count <= b.sum * a.count

\* mean a may stand before mean b in sort_values(ascending=False): a >= b, NaN last
not_below(a, b) ==
    \/ b.count = 0
    \/ a.count > 0 /\ a.sum * b.count >= b.sum * a.count

RECURSIVE descending_orders(_)
\* sort_values(ascending=False) of a set of group means: every order that is
\* descending (the default quicksort is not stable: equal means come in any order)
descending_orders(means) ==
    IF means = {} THEN {<<>>}
    ELSE UNION {{<<a>> \o rest : rest \in descending_orders(means \ {a})} :
                a \in {m \in means : \A b \in means : not_below(m, b)}}

head(s, n) == SubSeq(s, 1, IF Len(s) < n THEN Len(s) ELSE n)

\* f"{temp:.2f}": the mean in hundredths, rounded to the nearest
format_2f(mean) == IF mean.count = 0 THEN Null ELSE Val(round(100 * mean.sum, mean.count))

GenerateReport ==
    /\ pc = "line 124"
    /\ \E order \in descending_orders({group_mean(df, c) : c \in groups(df)}) :
          /\ avg_temp' = head(order, TopN)
          /\ report' = [i \in DOMAIN head(order, TopN) |->
                           [city |-> order[i].city, text |-> format_2f(order[i])]]
    /\ pc' = "line 135"
    /\ UNCHANGED <<input, df, error, date, parsed, data, capitalized>>

NextReport == GenerateReport

(***************************************************************************)
(* Stand-alone calls of the two nested functions                           *)
(***************************************************************************)
CallDateParser ==
    /\ pc = "line 58"
    /\ parsed' = custom_date_parser(date)
    /\ pc' = "line 65"
    /\ UNCHANGED <<input, df, error, date, data, capitalized, avg_temp, report>>

NextDate == CallDateParser

CallCapitalize ==
    /\ pc = "line 74"
    /\ capitalized' = convert_to_string_and_capitalize(data)
    /\ pc' = "line 75"
    /\ UNCHANGED <<input, df, error, date, parsed, data, avg_temp, report>>

NextCapitalize == CallCapitalize

(***************************************************************************)
(* Inputs                                                                  *)
(***************************************************************************)
\* the longest input table of clean_weather_data
MaxRows == 3
\* the longest cleaned table given to save_data_and_generate_report
MaxReportRows == 6
\* the longest string given to convert_to_string_and_capitalize
MaxLen == 4

Rain == <<" ", " ", "r", "a", "i", "n", " ">>
UnknownWords ==
    { <<"u", "n", "k", "n", "o", "w", "n">>,
      <<" ", "U", "N", "K", "N", "O", "W", "N", " ">>,
      <<"\t", "u", "N", "k", "n", "O", "w", "n">> }
UnknownOfRows == <<"\t", "u", "N", "K", "n", "O", "w", "n", " ">>

GoodDate == <<"0", "1", "/", "0", "2", "/", "2", "0", "2", "0">>
BadDate == <<"2", "0", "2", "0", "-", "1", "3", "-", "4", "5">>

Row(city, d, condition, temperature, humidity, wind) ==
    [city |-> city, date |-> d, weather_condition |-> condition,
     temperature_celsius |-> temperature, humidity_percent |-> humidity,
     wind_speed_kph |-> wind]

\* pd.read_csv labels the rows by position
with_index(rows) ==
    [i \in DOMAIN rows |->
        [c \in (DOMAIN rows[i]) \cup {"index"} |->
            IF c = "index" THEN Val(i) ELSE rows[i][c]]]

\* rows that differ in city and in the numeric columns
NumericRows ==
    {Row(c, Val(GoodDate), Val(Rain), t, Val(40), Val(5)) :
        c \in {Val("X"), Val("Y"), Null}, t \in {Null, Val(10), Val(15), Val(20)}}
    \cup {Row(Val("X"), Val(GoodDate), Val(Rain), Val(10), Null, Val(5)),
          Row(Val("X"), Val(GoodDate), Val(Rain), Val(10), Val(40), Null)}

\* rows that differ in date and weather_condition
FilterRows ==
    {Row(ct[1], dw[1], dw[2], ct[2], Val(40), Val(5)) :
        ct \in {<<Val("X"), Val(10)>>, <<Null, Null>>},
        dw \in {<<Val(GoodDate), Val(Rain)>>, <<Null, Val(Rain)>>,
                <<Val(BadDate), Val(Rain)>>, <<Val(GoodDate), Null>>,
                <<Val(GoodDate), Val(UnknownOfRows)>>}}
    \cup {Row(Val("X"), Val(GoodDate), Val(Rain), Null, Val(40), Val(5)),
          Row(Val("X"), Val(GoodDate), Val(UnknownOfRows), Null, Val(40), Val(5))}

\* clean_weather_data is called with a table of 1..MaxRows of the given rows
InitCall(rows) ==
    /\ \E k \in 1..MaxRows : \E f \in [1..k -> rows] : input = with_index(f)
    /\ df = input
    /\ pc = "line 50"
    /\ error = ""
    /\ date = <<>>
    /\ parsed = NaT
    /\ data = <<>>
    /\ capitalized = <<>>
    /\ avg_temp = <<>>
    /\ report = <<>>

Init == InitCall(NumericRows)
InitFilter == InitCall(FilterRows)

Spec == Init /\ [][Next]_vars
SpecFilter == InitFilter /\ [][Next]_vars

\* date strings of three fields and two separators
DateFields ==
    { <<"0", "2">>, <<"1", "2">>, <<"1", "3">>, <<"2", "9">>, <<"3", "1">>,
      <<"2", "0", "2", "0">>, <<"2", "0", "2", "1">> }
DateSeparators == {"-", ".", "/"}
DateStrings ==
    {f[1] \o <<p[1]>> \o f[2] \o <<p[2]>> \o f[3] :
        f \in DateFields \X DateFields \X DateFields,
        p \in DateSeparators \X DateSeparators}
    \cup {GoodDate, BadDate, <<>>, <<"n", "/", "a">>, <<"2", "0", "2", "0">>,
          <<"0", "1", "/", "0", "2", "/", "2", "0", "2", "0", "/">>}

InitDate ==
    /\ date \in DateStrings
    /\ pc = "line 58"
    /\ parsed = NaT
    /\ input = <<>>
    /\ df = <<>>
    /\ error = ""
    /\ data = <<>>
    /\ capitalized = <<>>
    /\ avg_temp = <<>>
    /\ report = <<>>

SpecDate == InitDate /\ [][NextDate]_vars

TitleAlphabet == {"a", "B", " ", "-", "3"}
TitleStrings ==
    UNION {[1..k -> TitleAlphabet] : k \in 0..MaxLen} \cup {Rain} \cup UnknownWords

InitCapitalize ==
    /\ data \in TitleStrings
    /\ pc = "line 74"
    /\ capitalized = <<>>
    /\ input = <<>>
    /\ df = <<>>
    /\ error = ""
    /\ date = <<>>
    /\ parsed = NaT
    /\ avg_temp = <<>>
    /\ report = <<>>

SpecCapitalize == InitCapitalize /\ [][NextCapitalize]_vars

\* the cities of a cleaned table, named in the order of their first row
CityNames == <<"A", "B", "C", "D", "E", "F", "G", "H">>

RECURSIVE CityLabels(_)
\* the sequences of n city numbers of a table that lists its cities one after
\* another: a row has the city of the row before it or the next city
\* (groupby('city') does not depend on the order of the rows)
CityLabels(n) ==
    IF n = 0 THEN {<<>>}
    ELSE UNION {{Append(s, c) : c \in (IF s = <<>> THEN {1} ELSE {s[Len(s)], s[Len(s)] + 1})} :
                s \in CityLabels(n - 1)}

CleanDate == custom_date_parser(GoodDate)
CleanCondition == Val(convert_to_string_and_capitalize(Rain))

\* a row of a table clean_weather_data returns
CleanRow(city, temperature) ==
    [c \in (Columns \ {"index"}) \cup {"temperature_fahrenheit"} |->
        CASE c = "city" -> Val(city)
          [] c = "date" -> CleanDate
          [] c = "weather_condition" -> CleanCondition
          [] c = "temperature_celsius" -> Val(temperature)
          [] c = "temperature_fahrenheit" -> fahrenheit(Val(temperature))
          [] c = "humidity_percent" -> Val(40)
          [] c = "wind_speed_kph" -> Val(5)]

\* the temperatures of a cleaned table
ReportTemperatures == {10, 30}

InitReport ==
    /\ \E k \in 1..MaxReportRows :
          \E l \in CityLabels(k) :
             \E t \in [1..k -> ReportTemperatures] :
                df = with_index([i \in 1..k |-> CleanRow(CityNames[l[i]], t[i])])
    /\ input = df
    /\ pc = "line 124"
    /\ error = ""
    /\ date = <<>>
    /\ parsed = NaT
    /\ data = <<>>
    /\ capitalized = <<>>
    /\ avg_temp = <<>>
    /\ report = <<>>

SpecReport == InitReport /\ [][NextReport]_vars

(***************************************************************************)
(* Properties                                                              *)
(***************************************************************************)
\* the row of the input table a row of df comes from
InputRow(row) == input[row["index"].v]

\* the statement that imputes col has run and clean_weather_data has not raised
Imputed(col) ==
    /\ pc \notin {"line 50", "raised"}
    /\ col = "humidity_percent" => pc # "line 51"
    /\ col = "wind_speed_kph" => pc \notin {"line 51", "line 52"}

\* the positions of the input rows of the city of row `of` with a value in col
InputValues(of, col) ==
    {j \in DOMAIN input : input[j]["city"] = of["city"] /\ ~isna(input[j][col])}

\* s is the word "unknown" in any letter case, with any whitespace around it
IsUnknownWord(s) ==
    \E a \in 0..Len(s) :
        /\ a + 7 <= Len(s)
        /\ \A i \in 1..a : s[i] \in Whitespace
        /\ \A i \in (a + 8)..Len(s) : s[i] \in Whitespace
        /\ [i \in 1..7 |-> ToLower(s[a + i])] = <<"u", "n", "k", "n", "o", "w", "n">>

AllUnknown(t) ==
    \A i \in DOMAIN t :
        ~isna(t[i]["weather_condition"]) /\ IsUnknownWord(t[i]["weather_condition"].v)

Abs(x) == IF x < 0 THEN -x ELSE x

\* C1: no row of the table clean_weather_data returns has weather_condition
\* "Unknown", and a table whose rows all say "unknown" (any case, any
\* whitespace around) comes back empty
C1_NoUnknownRow ==
    pc = "returned" =>
        /\ \A i \in DOMAIN df : df[i]["weather_condition"] # Val(Unknown)
        /\ AllUnknown(input) => df = <<>>

C1_Witness ==
    /\ pc = "returned"
    /\ df = <<>>
    /\ AllUnknown(input)
    /\ Len(input) > 1
    /\ \A i \in DOMAIN input : input[i]["weather_condition"] # Val(Unknown)

\* C2: in the returned table, no row of a city that had a value of a numeric
\* column somewhere in the input is null in that column
C2_NoNullLeft ==
    pc = "returned" =>
        \A i \in DOMAIN df : \A col \in NumericColumns :
            (~isna(df[i]["city"]) /\ InputValues(InputRow(df[i]), col) # {})
                => ~isna(df[i][col])

C2_Witness ==
    /\ pc = "returned"
    /\ \E i \in DOMAIN df :
          /\ isna(InputRow(df[i])["humidity_percent"])
          /\ ~isna(df[i]["humidity_percent"])
          /\ \E j \in DOMAIN df : j # i /\ isna(InputRow(df[j])["temperature_celsius"])
                                       /\ ~isna(df[j]["temperature_celsius"])

\* C3: a value that was null in the input, in a city with a value of that
\* column, is after the imputation an integer nearest to the mean of the
\* non-null input values of the column over the rows of the same city
C3_ImputedMean ==
    \A col \in NumericColumns :
        Imputed(col) =>
            \A i \in DOMAIN df :
                LET from == InputRow(df[i])
                    rows == InputValues(from, col)
                IN  (isna(from[col]) /\ ~isna(from["city"]) /\ rows # {})
                        => /\ ~isna(df[i][col])
                           /\ 2 * Abs(df[i][col].v * Cardinality(rows) - sum_of(input, col, rows))
                                  <= Cardinality(rows)

\* the scenario null, 10, 20 of one city
C3_Witness ==
    /\ pc = "line 51"
    /\ Len(input) = 3
    /\ input[1]["city"] = Val("X") /\ isna(input[1]["temperature_celsius"])
    /\ input[2]["city"] = Val("X") /\ input[2]["temperature_celsius"] = Val(10)
    /\ input[3]["city"] = Val("X") /\ input[3]["temperature_celsius"] = Val(20)
    /\ df[1]["temperature_celsius"] = Val(15)

\* C4 as claimed: a city without any value in a numeric column does not make
\* the imputation raise, and its rows keep a null there (and a null
\* temperature_fahrenheit)
C4_AllNullGroupCompletes ==
    \A col \in NumericColumns : \A c \in groups(input) :
        notna_rows(input, col, c) = {} =>
            /\ pc # "raised"
            /\ Imputed(col) =>
                  \A i \in DOMAIN df :
                      df[i]["city"] = Val(c) =>
                          /\ isna(df[i][col])
                          /\ (col = "temperature_celsius"
                                /\ "temperature_fahrenheit" \in DOMAIN df[i])
                                => isna(df[i]["temperature_fahrenheit"])

\* the nine formats in the order the specification names them
ClaimedFormats ==
    << [dirs |-> <<"d", "m", "Y">>, sep |-> "-"],
       [dirs |-> <<"d", "m", "Y">>, sep |-> "."],
       [dirs |-> <<"m", "d", "Y">>, sep |-> "/"],
       [dirs |-> <<"Y", "m", "d">>, sep |-> "-"],
       [dirs |-> <<"d", "m", "Y">>, sep |-> "/"],
       [dirs |-> <<"m", "d", "Y">>, sep |-> "-"],
       [dirs |-> <<"m", "d", "Y">>, sep |-> "."],
       [dirs |-> <<"Y", "m", "d">>, sep |-> "."],
       [dirs |-> <<"Y", "m", "d">>, sep |-> "/"] >>

\* C5: custom_date_parser returns the date of the first of the nine formats,
\* in the order named, under which the string parses, and NaT when it parses
\* under none; "01/02/2020" is month 1, day 2, year 2020
C5_FirstFormatWins ==
    pc = "line 65" =>
        LET parses == {k \in DOMAIN ClaimedFormats : to_datetime_ok(date, ClaimedFormats[k])}
        IN  /\ parses = {} => parsed = NaT
            /\ parses # {} =>
                  \E k \in parses :
                      /\ \A j \in parses : k <= j
                      /\ parsed = to_datetime(date, ClaimedFormats[k])
            /\ date = GoodDate =>
                  parsed = [kind |-> "Timestamp", year |-> 2020, month |-> 1, day |-> 2]

C5_Witness ==
    /\ pc = "line 65"
    /\ date = GoodDate
    /\ parsed = [kind |-> "Timestamp", year |-> 2020, month |-> 1, day |-> 2]

\* C6: in the returned table, temperature_fahrenheit is
\* temperature_celsius * 9/5 + 32 of the same row wherever temperature_celsius
\* is not null (both sides in fifths of a degree)
C6_Fahrenheit ==
    pc = "returned" =>
        \A i \in DOMAIN df :
            ~isna(df[i]["temperature_celsius"]) =>
                /\ ~isna(df[i]["temperature_fahrenheit"])
                /\ df[i]["temperature_fahrenheit"].v
                      = 9 * df[i]["temperature_celsius"].v + 5 * 32

\* a row whose temperature was imputed: 15 degrees Celsius are 59 Fahrenheit
C6_Witness ==
    /\ pc = "returned"
    /\ \E i \in DOMAIN df :
          /\ isna(InputRow(df[i])["temperature_celsius"])
          /\ df[i]["temperature_celsius"] = Val(15)
          /\ df[i]["temperature_fahrenheit"] = Val(5 * 59)

\* the rows of city c in df, and the sum of their temperatures
CityRows(c) == {i \in DOMAIN df : df[i]["city"] = Val(c) /\ ~isna(df[i]["temperature_celsius"])}
CitySum(c) == sum_of(df, "temperature_celsius", CityRows(c))

\* the mean temperature of city a is at least that of city b
MeanAtLeast(a, b) ==
    CitySum(a) * Cardinality(CityRows(b)) >= CitySum(b) * Cardinality(CityRows(a))

\* C7: the report lists min(5, number of cities) distinct cities, each with
\* its mean temperature (to two decimals), in descending order of mean, and
\* no omitted city has a higher mean than a listed one
C7_TopFive ==
    pc = "line 135" =>
        LET cities == groups(df)
            listed == {report[i].city : i \in DOMAIN report}
        IN  /\ Len(report) = (IF Cardinality(cities) < 5 THEN Cardinality(cities) ELSE 5)
            /\ listed \subseteq cities
            /\ Cardinality(listed) = Len(report)
            /\ \A i \in DOMAIN report :
                  /\ ~isna(report[i].text)
                  /\ 2 * Abs(report[i].text.v * Cardinality(CityRows(report[i].city))
                             - 100 * CitySum(report[i].city))
                        <= Cardinality(CityRows(report[i].city))
            /\ \A i, j \in DOMAIN report :
                  i < j => MeanAtLeast(report[i].city, report[j].city)
            /\ \A a \in listed : \A b \in cities \ listed : MeanAtLeast(a, b)

\* six cities, the one left out colder than every listed one
C7_Witness ==
    /\ pc = "line 135"
    /\ Cardinality(groups(df)) = 6
    /\ Len(report) = 5
    /\ \E b \in groups(df) :
          \A i \in DOMAIN report : report[i].city # b /\ ~MeanAtLeast(b, report[i].city)

\* C8 as claimed: the value stripped, then every word capitalized, a word
\* beginning after whitespace only
C8_WhitespaceWords ==
    pc = "line 75" => capitalized = title_whitespace_from(strip(data), FALSE)

\* C8 as amended: the value without its leading and trailing whitespace, each
\* letter uppercase when no letter stands directly before it and lowercase when
\* one does (so a word also begins after a digit, a hyphen or any other
\* character that is not a letter); characters that are not letters are kept
C8_TitleCase ==
    pc = "line 75" =>
        \E a \in 0..Len(data) : \E b \in a..Len(data) :
            /\ \A i \in 1..a : data[i] \in Whitespace
            /\ \A i \in (b + 1)..Len(data) : data[i] \in Whitespace
            /\ b > a => data[a + 1] \notin Whitespace /\ data[b] \notin Whitespace
            /\ Len(capitalized) = b - a
            /\ \A i \in 1..(b - a) :
                  capitalized[i] =
                      IF i > 1 /\ IsCased(data[a + i - 1])
                      THEN ToLower(data[a + i]) ELSE ToUpper(data[a + i])

\* "  rain " becomes "Rain"
C8_Witness ==
    /\ pc = "line 75"
    /\ data = Rain
    /\ capitalized = <<"R", "a", "i", "n">>

\* the input rows clean_weather_data is to keep
Kept(row) ==
    /\ ~isna(row["date"])
    /\ ~isna(row["weather_condition"])
    /\ ~IsUnknownWord(row["weather_condition"].v)

\* C9: the returned table holds exactly the input rows with a date, a
\* weather_condition and a weather_condition other than "unknown", in their
\* order; a date that matches no format is NaT in the row, not a reason to
\* drop it
C9_RowsKept ==
    pc = "returned" =>
        LET kept == SelectSeq(input, Kept)
        IN  /\ Len(df) = Len(kept)
            /\ \A i \in DOMAIN df :
                  /\ df[i]["index"] = kept[i]["index"]
                  /\ (\A k \in DOMAIN ClaimedFormats :
                          ~to_datetime_ok(kept[i]["date"].v, ClaimedFormats[k]))
                        => df[i]["date"] = NaT

\* a row with an unparsed date and a row with a null temperature are kept
\* while another row is dropped
C9_Witness ==
    /\ pc = "returned"
    /\ Len(df) < Len(input)
    /\ \E i \in DOMAIN df : df[i]["date"] = NaT
    /\ \E i \in DOMAIN df : isna(df[i]["temperature_celsius"])

\* C10 as claimed: whatever the city of a row, a numeric value that was not
\* null in the input is the same after the imputation, and the imputation
\* changes neither the order of the rows nor another column
C10_OnlyNullsChange ==
    /\ \A i \in DOMAIN df : \A col \in NumericColumns :
          (pc # "raised" /\ ~isna(InputRow(df[i])[col])) => df[i][col] = InputRow(df[i])[col]
    /\ pc \in {"line 51", "line 52", "line 55"} =>
          /\ Len(df) = Len(input)
          /\ \A i \in DOMAIN df :
                \A c \in Columns \ NumericColumns : df[i][c] = input[i][c]

====
